---- MODULE Spec2Model ----
(***************************************************************************)
(* Model of the DesktopFile record of 1cestart-fix.py: a .desktop file     *)
(* held both as typed fields and as raw text, kept in step by update().    *)
(*                                                                         *)
(* Text is a sequence of tokens.  The literals of the pattern              *)
(* ("[Desktop Entry]", "Exec=", ...) are single tokens, "NL" is the line   *)
(* break, " " the blank, "0".."9" and "." the digits and the point, every  *)
(* other token an ordinary character.                                      *)
(* hash(x) is modelled by x itself: only equality of hashes is used.       *)
(***************************************************************************)
EXTENDS Integers, Sequences, FiniteSets, TLC

\* ------------------------------------------------------------------ bounds
MaxOps == 2    \* operations other than update() in one behaviour

MaxResidents == 2    \* files and directories in one scanned directory

MaxPresses == 3    \* button presses in one run of the application

MaxPairOps == 4    \* operations on two entries in one behaviour

MaxStartEdits == 1    \* edits behind the state repeated update() calls start from

\* ------------------------------------------------------------------ tokens
HDR == "[Desktop Entry]"
EXEC == "Exec="
NAME_RU == "Name[ru_RU]="
NAME_EN == "Name="
LD_PRELOAD == "LD_PRELOAD=/usr/lib/libstdc++.so.6"
GDK_SCALE == "GDK_SCALE="
GDK_DPI_SCALE == "GDK_DPI_SCALE="
NL == "NL"
SP == " "
DOT == "."

DigitTok == <<"0", "1", "2", "3", "4", "5", "6", "7", "8", "9">>

Digits == {DigitTok[i] : i \in 1..10}

Spaces == {SP, NL}

Max(S) == CHOOSE x \in S : \A y \in S : y <= x

Min(S) == CHOOSE x \in S : \A y \in S : x <= y

Slice(s, a, b) == [i \in 1..(b - a) |-> s[a + i - 1]]

\* value of the digit token d
DigitVal(d) == (CHOOSE i \in 1..10 : DigitTok[i] = d) - 1

RECURSIVE int(_)
\* int("02") = 2 : value of a string of digits
int(ds) ==
    IF ds = <<>> THEN 0
    ELSE 10 * int(SubSeq(ds, 1, Len(ds) - 1)) + DigitVal(ds[Len(ds)])

RECURSIVE str(_)
\* str(12) = "12" : decimal digits of a natural number, no leading zero
str(n) ==
    IF n < 10 THEN <<DigitTok[n + 1]>>
    ELSE Append(str(n \div 10), DigitTok[(n % 10) + 1])

RECURSIVE StripZeros(_)
StripZeros(ds) ==
    IF ds /= <<>> /\ ds[Len(ds)] = "0" THEN StripZeros(SubSeq(ds, 1, Len(ds) - 1))
    ELSE ds

\* float("1.50") : a float is the pair <<integer part, fraction digits
\* without trailing zeros>>, so float("2") = float("2.0") = <<2, <<>>>>
float(ds) ==
    LET dots == {i \in 1..Len(ds) : ds[i] = DOT}
    IN IF dots = {} THEN <<int(ds), <<>>>>
       ELSE LET d == Min(dots)
            IN <<int(SubSeq(ds, 1, d - 1)), StripZeros(SubSeq(ds, d + 1, Len(ds)))>>

\* f"{x}" of a float: always with a point, 2.0 -> "2.0", 1.5 -> "1.5"
float_str(x) == str(x[1]) \o <<DOT>> \o (IF x[2] = <<>> THEN <<"0">> ELSE x[2])

\* ------------------------------------------------- the pattern (_pattern)
Tok(s, p) == IF p \in 1..Len(s) THEN s[p] ELSE "EOF"

\* ^ under re.MULTILINE
LineStart(s, p) == p = 1 \/ Tok(s, p - 1) = NL

\* position of the $ that ends the line of position p
EOL(s, p) ==
    CHOOSE q \in p..(Len(s) + 1) : /\ Tok(s, q) \in {NL, "EOF"}
                                   /\ \A i \in p..(q - 1) : s[i] /= NL

\* length of the longest run of tokens of T that starts at p
Run(s, p, T) ==
    CHOOSE k \in 0..(Len(s) + 1 - p) : /\ \A i \in p..(p + k - 1) : s[i] \in T
                                       /\ Tok(s, p + k) \notin T

IsLine(s, p, key) == LineStart(s, p) /\ Tok(s, p) = key

\* (?:.|\n)*^Name[ru_RU]=(.*)$(?:.|\n)*^Name=(.*)$ can match from q on
NameRuStarts(s, q) ==
    {r \in q..Len(s) : IsLine(s, r, NAME_RU)
                       /\ \E m \in EOL(s, r + 1)..Len(s) : IsLine(s, m, NAME_EN)}

TailOK(s, q) == NameRuStarts(s, q) /= {}

\* a way the pattern matches: the groups of the Exec= value and, in tries,
\* what the engine chose at each point where it can backtrack, in the order
\* of the pattern; at every point it tries the larger choice first
NoGroups ==
    [ok |-> FALSE, preload_libstdc |-> FALSE,
     has_scale |-> FALSE, scale |-> <<>>,
     has_dpi_scale |-> FALSE, dpi_scale |-> <<>>,
     command_start |-> 0, command_end |-> 0, tries |-> <<>>]

Chose(g, c) == [g EXCEPT !.tries = <<c>> \o g.tries]

\* (?P<command>.*)$ followed by the two name lines
MatchCommand(s, p) ==
    IF TailOK(s, EOL(s, p))
    THEN {[NoGroups EXCEPT !.ok = TRUE, !.command_start = p, !.command_end = EOL(s, p)]}
    ELSE {}

\* \s*(?P<command>.*)$ : greedy, the choice is the number of blanks
MatchSpCommand(s, p) ==
    UNION {{Chose(g, k) : g \in MatchCommand(s, p + k)} : k \in 0..Run(s, p, Spaces)}

\* the ends of \d+(?:\.\d+)? at p
DpiEnds(s, p) ==
    LET ints == {p + k : k \in 1..Run(s, p, Digits)}
    IN ints \cup UNION {{i + 1 + k : k \in 1..Run(s, i + 1, Digits)} :
                         i \in {j \in ints : Tok(s, j) = DOT}}

\* (?:\s*GDK_DPI_SCALE=(?P<dpi_scale>\d+(?:\.\d+)?))? then \s*command: the
\* choice is the end of the number (a fraction ends later than none), 0
\* when the group is left out
MatchDpi(s, p) ==
    LET d == p + Run(s, p, Spaces)
    IN (IF Tok(s, d) = GDK_DPI_SCALE
        THEN UNION {{[Chose(g, e) EXCEPT !.has_dpi_scale = TRUE,
                                         !.dpi_scale = Slice(s, d + 1, e)] :
                       g \in MatchSpCommand(s, e)} : e \in DpiEnds(s, d + 1)}
        ELSE {})
       \cup {Chose(g, 0) : g \in MatchSpCommand(s, p)}

\* (?:GDK_SCALE=(?P<scale>\d+))? then the DPI group: the choice is the
\* number of digits, 0 when the group is left out
MatchScale(s, p) ==
    (IF Tok(s, p) = GDK_SCALE
     THEN UNION {{[Chose(g, n) EXCEPT !.has_scale = TRUE,
                                      !.scale = Slice(s, p + 1, p + 1 + n)] :
                    g \in MatchDpi(s, p + 1 + n)} : n \in 1..Run(s, p + 1, Digits)}
     ELSE {})
    \cup {Chose(g, 0) : g \in MatchDpi(s, p)}

\* \s* then the scale group
MatchSpScale(s, p) ==
    UNION {{Chose(g, k) : g \in MatchScale(s, p + k)} : k \in 0..Run(s, p, Spaces)}

\* (?P<exec>(?P<preload_libstdc>LD_PRELOAD=...)? ... ) from p on
MatchExec(s, p) ==
    (IF Tok(s, p) = LD_PRELOAD
     THEN {[Chose(g, 1) EXCEPT !.preload_libstdc = TRUE] : g \in MatchSpScale(s, p + 1)}
     ELSE {})
    \cup {Chose(g, 0) : g \in MatchSpScale(s, p)}

\* starts of the Exec= lines below a [Desktop Entry] line
ExecStarts(s) ==
    {e \in 1..Len(s) : IsLine(s, e, EXEC) /\ \E h \in 1..(e - 1) : IsLine(s, h, HDR)}

\* every way the pattern matches s; (?:.|\n)* is greedy, so the first
\* choice is the Exec= line, the last one first
Matching(s) == UNION {{Chose(g, e) : g \in MatchExec(s, e + 1)} : e \in ExecStarts(s)}

\* no way at all: behind every way in the order of the engine
NoMatch == [NoGroups EXCEPT !.tries = <<0, 0, 0, 0, 0, 0>>]

\* the engine comes to a before b
Prefers(a, b) ==
    \A i \in 1..Len(a) : (\A j \in 1..(i - 1) : a[j] = b[j]) => a[i] >= b[i]

First(S) == {a \in S : \A b \in S : Prefers(a.tries, b.tries)}

\* the groups of the match g and their spans [start, end); the name lines
\* are the last ones, (?:.|\n)* being greedy
Groups(s, g) ==
    IF ~g.ok
    THEN [ok |-> FALSE]
    ELSE LET r == Max(NameRuStarts(s, g.command_end))
             m == Max({n \in EOL(s, r + 1)..Len(s) : IsLine(s, n, NAME_EN)})
         IN [ok |-> TRUE,
             preload_libstdc |-> g.preload_libstdc,
             has_scale |-> g.has_scale, scale |-> g.scale,
             has_dpi_scale |-> g.has_dpi_scale, dpi_scale |-> g.dpi_scale,
             command |-> Slice(s, g.command_start, g.command_end),
             name_ru |-> Slice(s, r + 1, EOL(s, r + 1)),
             name_en |-> Slice(s, m + 1, EOL(s, m + 1)),
             exec_span |-> <<g.tries[1] + 1, g.command_end>>,
             name_ru_span |-> <<r + 1, EOL(s, r + 1)>>,
             name_en_span |-> <<m + 1, EOL(s, m + 1)>>]

\* _pattern.search(string=s): the match the engine finds
pattern_search(s) ==
    CHOOSE match \in UNION {{Groups(s, g) : g \in First(S)} :
                              S \in {Matching(s) \cup {NoMatch}}} : TRUE

Matches(s) == pattern_search(s).ok

\* ------------------------------------------------------- the DesktopFile
\* hash(self): the dataclass hashes every field but readonly (hash=False);
\* _content and the checkpoints are not fields
hash(o) ==
    <<o.filename, o.preload_libstdc, o.set_scale, o.scale, o.set_dpi_scale,
      o.dpi_scale, o.command, o.name_ru, o.name_en>>

\* the class attributes _last_... = -1: a value no hash ever equals
NoObjHash == <<"-1", FALSE, FALSE, 0, FALSE, <<0, <<>>>>, <<>>, <<>>, <<>>>>

NoContentHash == <<"-1">>

NoFileHash == <<-1, -1>>

\* calc_file_hash: hash((st_size, st_mtime)) of a file that exists, else 0
\* (written <<0, 0>>; a file that exists has st_mtime >= 1)
calc_file_hash(f) == IF f.exists THEN <<Len(f.content), f.mtime>> ELSE <<0, 0>>

\* os.access(path, os.W_OK)
os_access_W_OK(f) == f.exists /\ f.writable

\* the outcome of a call: the object after it, the exception it raised
\* ("none" when it returned) and the branches of update() it went through
Return(o, fired) == [self |-> o, err |-> "none", fired |-> fired]

Raise(o, e, fired) == [self |-> o, err |-> e, fired |-> fired]

\* exec_command as it would be if it wrote the preload prefix when
\* preload_libstdc is off and left it out when it is on
exec_command_inverted(o) ==
    (IF o.preload_libstdc THEN <<>> ELSE <<LD_PRELOAD, SP>>)
    \o (IF o.set_scale THEN <<GDK_SCALE>> \o str(o.scale) \o <<SP>> ELSE <<>>)
    \o (IF o.set_dpi_scale THEN <<GDK_DPI_SCALE>> \o float_str(o.dpi_scale) \o <<SP>> ELSE <<>>)
    \o o.command

\* exec_command as it would be if the scale prefix were written for every
\* scale other than 1, whatever set_scale says
exec_command_by_value(o) ==
    (IF o.preload_libstdc THEN <<LD_PRELOAD, SP>> ELSE <<>>)
    \o (IF o.scale /= 1 THEN <<GDK_SCALE>> \o str(o.scale) \o <<SP>> ELSE <<>>)
    \o (IF o.set_dpi_scale THEN <<GDK_DPI_SCALE>> \o float_str(o.dpi_scale) \o <<SP>> ELSE <<>>)
    \o o.command

\* exec_command
exec_command(o) ==
    (IF o.preload_libstdc THEN <<LD_PRELOAD, SP>> ELSE <<>>)
    \o (IF o.set_scale THEN <<GDK_SCALE>> \o str(o.scale) \o <<SP>> ELSE <<>>)
    \o (IF o.set_dpi_scale THEN <<GDK_DPI_SCALE>> \o float_str(o.dpi_scale) \o <<SP>> ELSE <<>>)
    \o o.command

\* _parse_content as it would be if a group that did not take part in the
\* match left the value of its field as it was
parse_content_keeps(o) ==
    LET match == pattern_search(o.content)
    IN IF ~match.ok
       THEN Raise(o, "TypeError", <<"parse">>)
       ELSE Return([o EXCEPT
                !.scale = IF match.has_scale THEN int(match.scale) ELSE o.scale,
                !.dpi_scale = IF match.has_dpi_scale THEN float(match.dpi_scale)
                              ELSE o.dpi_scale,
                !.set_dpi_scale = match.has_dpi_scale,
                !.set_scale = match.has_scale,
                !.preload_libstdc = match.preload_libstdc,
                !.command = match.command,
                !.name_ru = match.name_ru,
                !.name_en = match.name_en,
                !.last_parse_content_hash = o.content], <<"parse">>)

\* update._parse_content: match["scale"] raises TypeError on a failed
\* search, before any field is assigned
parse_content(o) ==
    LET match == pattern_search(o.content)
    IN IF ~match.ok
       THEN Raise(o, "TypeError", <<"parse">>)
       ELSE Return([o EXCEPT
                !.scale = IF match.has_scale THEN int(match.scale) ELSE 1,
                !.dpi_scale = IF match.has_dpi_scale THEN float(match.dpi_scale) ELSE <<1, <<>>>>,
                !.set_dpi_scale = match.has_dpi_scale,
                !.set_scale = match.has_scale,
                !.preload_libstdc = match.preload_libstdc,
                !.command = match.command,
                !.name_ru = match.name_ru,
                !.name_en = match.name_en,
                !.last_parse_content_hash = o.content], <<"parse">>)

RECURSIVE gen_loop(_, _, _, _, _)
\* the loop of gen_template over the groups that are keywords, in the
\* order of groupdict(): a group with an empty value is skipped
gen_loop(source, groups, i, start_pos, tmplt) ==
    IF i > Len(groups)
    THEN tmplt \o Slice(source, start_pos, Len(source) + 1)
    ELSE LET span == groups[i][1]
             keyword == groups[i][2]
         IN IF span[1] = span[2]
            THEN gen_loop(source, groups, i + 1, start_pos, tmplt)
            ELSE gen_loop(source, groups, i + 1, span[2],
                          tmplt \o Slice(source, start_pos, span[1]) \o keyword)

\* update._set_content.gen_template
gen_template(source, match, keywords) ==
    gen_loop(source,
             <<<<match.exec_span, keywords.exec>>,
               <<match.name_ru_span, keywords.name_ru>>,
               <<match.name_en_span, keywords.name_en>>>>,
             1, 1, <<>>)

\* update._set_content
render_content(o) ==
    LET match == pattern_search(o.content)
    IN IF match.ok
       THEN Return([o EXCEPT
                !.content = gen_template(o.content, match,
                                [exec |-> exec_command(o), name_ru |-> o.name_ru,
                                 name_en |-> o.name_en]),
                !.last_set_content_hash = hash(o)], <<"render">>)
       ELSE Return(o, <<"render">>)

RECURSIVE update(_, _)
\* set_content
set_content(o, f, new_content) == update([o EXCEPT !.content = new_content], f)

\* update() as it would be with the re-render tested by "if" in place of
\* "elif": a call that re-parses goes on to re-render
update_fallthrough(o, f) ==
    IF calc_file_hash(f) /= o.last_file_hash
    THEN LET o1 == [o EXCEPT !.last_file_hash = calc_file_hash(f),
                             !.readonly = ~os_access_W_OK(f)]
         IN IF ~f.exists
            THEN Raise(o1, "FileNotFoundError", <<"reload">>)
            ELSE LET r == set_content(o1, f, f.content)
                 IN [r EXCEPT !.fired = <<"reload">> \o r.fired]
    ELSE LET p == IF o.last_parse_content_hash /= o.content
                  THEN parse_content(o) ELSE Return(o, <<>>)
         IN IF p.err = "none" /\ p.self.last_set_content_hash /= hash(p.self)
            THEN LET r == render_content(p.self)
                 IN [r EXCEPT !.fired = p.fired \o r.fired]
            ELSE p

\* update: f is the backing file of self.filename
update(o, f) ==
    IF calc_file_hash(f) /= o.last_file_hash
    THEN LET o1 == [o EXCEPT !.last_file_hash = calc_file_hash(f),
                             !.readonly = ~os_access_W_OK(f)]
         IN IF ~f.exists
            THEN Raise(o1, "FileNotFoundError", <<"reload">>)
            ELSE LET r == set_content(o1, f, f.content)
                 IN [r EXCEPT !.fired = <<"reload">> \o r.fired]
    ELSE IF o.last_parse_content_hash /= o.content
    THEN parse_content(o)
    ELSE IF o.last_set_content_hash /= hash(o)
    THEN render_content(o)
    ELSE Return(o, <<>>)

\* get_content: the text it returns is self.content of the outcome
get_content(o, f) == update(o, f)

\* the dataclass defaults and the class attributes
Defaults ==
    [filename |-> "f", preload_libstdc |-> TRUE, set_scale |-> FALSE, scale |-> 1,
     set_dpi_scale |-> FALSE, dpi_scale |-> <<1, <<>>>>, command |-> <<>>,
     name_ru |-> <<>>, name_en |-> <<>>, readonly |-> FALSE, content |-> <<>>,
     last_save_obj_hash |-> NoObjHash, last_set_content_hash |-> NoObjHash,
     last_parse_content_hash |-> NoContentHash, last_file_hash |-> NoFileHash]

\* DesktopFile(filename): __post_init__
post_init(f) == update([Defaults EXCEPT !.last_set_content_hash = hash(Defaults)], f)

\* open(file, mode="wt"): creates or truncates the file
open_wt(f) == [exists |-> TRUE, content |-> <<>>, mtime |-> f.mtime + 1, writable |-> TRUE]

\* save: the file is opened for writing, and so truncated, before
\* get_content() is evaluated
save(o, f) ==
    IF o.last_save_obj_hash = hash(o)
    THEN [self |-> o, file |-> f, err |-> "none", fired |-> <<>>, opened |-> FALSE]
    ELSE IF f.exists /\ ~f.writable
    THEN [self |-> o, file |-> f, err |-> "PermissionError", fired |-> <<>>, opened |-> FALSE]
    ELSE LET f1 == open_wt(f)
             r == get_content(o, f1)
         IN IF r.err /= "none"
            THEN [self |-> r.self, file |-> f1, err |-> r.err, fired |-> r.fired,
                  opened |-> TRUE]
            ELSE [self |-> [r.self EXCEPT !.last_save_obj_hash = hash(r.self)],
                  file |-> [f1 EXCEPT !.content = r.self.content],
                  err |-> "none", fired |-> r.fired, opened |-> TRUE]

\* ------------------------------------------------------- two instances
\* The checkpoints are class attributes (-1) that the methods assign
\* through self: the assignment binds the attribute on the instance, the
\* class attribute stays -1 and no other instance sees the value.
\* objs maps the names of the instances to their states; k is the instance
\* the method ran on and o its state after the method.
\* The assignments as they would be if they were bound on the class
setattr_on_class(objs, k, o) ==
    [j \in DOMAIN objs |->
        IF j = k THEN o
        ELSE [objs[j] EXCEPT
                !.last_save_obj_hash = o.last_save_obj_hash,
                !.last_set_content_hash = o.last_set_content_hash,
                !.last_parse_content_hash = o.last_parse_content_hash,
                !.last_file_hash = o.last_file_hash]]

setattr_on_self(objs, k, o) == [objs EXCEPT ![k] = o]

\* ------------------------------------------------- find_desktop_files
\* A file name is a sequence of tokens, <<"1cestart", "-a", ".desktop">>
\* for 1cestart-a.desktop; a token that starts with a point is one of
\* Extensions.
Extensions == {".desktop", ".bak"}

\* Path.suffix
Path_suffix(name) ==
    IF Len(name) > 1 /\ name[Len(name)] \in Extensions THEN name[Len(name)] ELSE ""

\* file.name.startswith("1cestart")
name_startswith_1cestart(name) == name /= <<>> /\ name[1] = "1cestart"

\* the two directories scanned, in the order of the loop
SysDir == "/usr/share/applications"

UserDir == "~/.local/share/applications"

\* DesktopFile.has_content of the file f
has_content(f) == Matches(f.content)

\* DesktopFile(filename) on the backing file f: __post_init__
DesktopFile(filename, f) ==
    update([Defaults EXCEPT
                !.filename = filename,
                !.last_set_content_hash = hash([Defaults EXCEPT !.filename = filename])],
           f)

\* the file of the resident r of a directory
FileOf(r) == [exists |-> TRUE, content |-> r.content, mtime |-> 1, writable |-> r.writable]

\* the list comprehension without the test of the start of the name
scan_dir_any_name(d, path) ==
    IF ~d.exists
    THEN [err |-> "FileNotFoundError", files |-> <<>>]
    ELSE LET Test(r) == /\ r.is_file
                        /\ Path_suffix(r.name) = ".desktop"
                        /\ has_content(FileOf(r))
             sel == SelectSeq(d.listing, Test)
         IN [err |-> "none",
             files |-> [i \in 1..Len(sel) |->
                           DesktopFile(<<path, sel[i].name>>, FileOf(sel[i])).self]]

\* the list comprehension for one directory d = [exists, listing], listing
\* being what iterdir() yields; iterdir() of a directory that does not
\* exist raises FileNotFoundError
scan_dir(d, path) ==
    IF ~d.exists
    THEN [err |-> "FileNotFoundError", files |-> <<>>]
    ELSE LET Test(r) == /\ r.is_file
                        /\ Path_suffix(r.name) = ".desktop"
                        /\ name_startswith_1cestart(r.name)
                        /\ has_content(FileOf(r))
             sel == SelectSeq(d.listing, Test)
         IN [err |-> "none",
             files |-> [i \in 1..Len(sel) |->
                           DesktopFile(<<path, sel[i].name>>, FileOf(sel[i])).self]]

\* find_desktop_files(): an exception of either scan ends the call
find_desktop_files(ds) ==
    LET sys == scan_dir(ds.sys, SysDir)
        user == scan_dir(ds.user, UserDir)
    IN IF sys.err /= "none" THEN [done |-> TRUE, err |-> sys.err, files |-> <<>>]
       ELSE IF user.err /= "none" THEN [done |-> TRUE, err |-> user.err, files |-> <<>>]
       ELSE [done |-> TRUE, err |-> "none", files |-> sys.files \o user.files]

\* -------------------------------------------------------- the Application
\* self.current_file is None; a file name is a pair <<directory, name>>
None == <<>>

\* a path with no file
NoFile == [exists |-> FALSE, content |-> <<>>, mtime |-> 0, writable |-> FALSE]

\* self.files is a dict (it keeps the order of insertion), modelled as the
\* sequence of its values; the position of the key filename, 0 if absent
Index(files, filename) ==
    IF \E i \in 1..Len(files) : files[i].filename = filename
    THEN CHOOSE i \in 1..Len(files) : files[i].filename = filename
    ELSE 0

\* self.files.update({file.filename: file})
dict_update(files, o) ==
    IF Index(files, o.filename) = 0
    THEN Append(files, o)
    ELSE [files EXCEPT ![Index(files, o.filename)] = o]

\* self.files.pop(filename)
dict_pop(files, filename) ==
    SelectSeq(files, LAMBDA o : o.filename /= filename)

\* signal.connect(slot): a slot connected twice is called twice
connect(slots, slot) == Append(slots, slot)

\* str.strip()
RECURSIVE strip(_)
strip(t) ==
    IF t = <<>> THEN t
    ELSE IF t[1] \in Spaces THEN strip(Tail(t))
    ELSE IF t[Len(t)] \in Spaces THEN strip(SubSeq(t, 1, Len(t) - 1))
    ELSE t

\* the path _on_save_newfile_button builds from the text of new_filename
NewFilename(text) == <<UserDir, <<"1cestart">> \o strip(text) \o <<".desktop">>>>

\* shutil.copyfile(src, dst): the file dst after the copy
copyfile(src) == [exists |-> TRUE, content |-> src.content, mtime |-> 1, writable |-> TRUE]

\* _update_ui: in normal mode it enables the remove button for a writable
\* current entry and reads the text of the current entry with get_content()
update_ui(a, fsys) ==
    IF a.ui_mode /= "normal" THEN a
    ELSE IF a.current_file = None THEN [a EXCEPT !.removeEnabled = FALSE]
    ELSE [a EXCEPT
            !.removeEnabled = ~a.files[Index(a.files, a.current_file)].readonly,
            !.files[Index(a.files, a.current_file)] =
                get_content(@, fsys[a.current_file]).self]

\* the outcome of a handler: the application and the file system after it
Handled(a, fsys, e) == [app |-> a, fs |-> fsys, err |-> e]

\* _on_create_new_button
on_create_new_button(a, fsys) ==
    Handled(update_ui([a EXCEPT
                         !.ui_mode = "new_file",
                         !.createNewButton = connect(@, "_on_save_newfile_button"),
                         !.removeButton = connect(@, "_on_cancel_newfile_button")],
                      fsys),
            fsys, "none")

\* _on_cancel_newfile_button
on_cancel_newfile_button(a, fsys) ==
    Handled(update_ui([a EXCEPT
                         !.ui_mode = "normal",
                         !.createNewButton = connect(@, "_on_create_new_button"),
                         !.removeButton = connect(@, "_on_remove_file_button")],
                      fsys),
            fsys, "none")

\* _on_save_newfile_button as it would be without the test of
\* filename.exists()
on_save_newfile_button_overwrite(a, fsys) ==
    IF a.current_file = None
    THEN Handled(a, fsys, "AttributeError")
    ELSE \* bound once: the file system after the copy and the new entry
         CHOOSE h \in {IF r[2].err /= "none"
                       THEN Handled(a, r[1], r[2].err)
                       ELSE Handled(update_ui([a EXCEPT
                                    !.files = dict_update(@, r[2].self),
                                    !.current_file = r[2].self.filename,
                                    !.ui_mode = "normal",
                                    !.createNewButton = connect(@, "_on_create_new_button"),
                                    !.removeButton = connect(@, "_on_remove_file_button")],
                                    r[1]),
                                    r[1], "none") :
                       r \in {<<g, DesktopFile(NewFilename(a.new_filename),
                                               g[NewFilename(a.new_filename)])>> :
                              g \in {[fsys EXCEPT ![NewFilename(a.new_filename)] =
                                         copyfile(fsys[a.current_file])]}}} : TRUE

\* _on_save_newfile_button: a target that exists ends the handler after the
\* error message; self.current_file.filename of no current entry raises
on_save_newfile_button(a, fsys) ==
    IF fsys[NewFilename(a.new_filename)].exists
    THEN Handled(a, fsys, "none")
    ELSE IF a.current_file = None
    THEN Handled(a, fsys, "AttributeError")
    ELSE \* bound once: the file system after the copy and the new entry
         CHOOSE h \in {IF r[2].err /= "none"
                       THEN Handled(a, r[1], r[2].err)
                       ELSE Handled(update_ui([a EXCEPT
                                    !.files = dict_update(@, r[2].self),
                                    !.current_file = r[2].self.filename,
                                    !.ui_mode = "normal",
                                    !.createNewButton = connect(@, "_on_create_new_button"),
                                    !.removeButton = connect(@, "_on_remove_file_button")],
                                    r[1]),
                                    r[1], "none") :
                       r \in {<<g, DesktopFile(NewFilename(a.new_filename),
                                               g[NewFilename(a.new_filename)])>> :
                              g \in {[fsys EXCEPT ![NewFilename(a.new_filename)] =
                                         copyfile(fsys[a.current_file])]}}} : TRUE

\* _on_remove_file_button
on_remove_file_button(a, fsys) ==
    IF a.current_file /= None /\ ~a.files[Index(a.files, a.current_file)].readonly
    THEN CHOOSE h \in {Handled(update_ui([a EXCEPT
                                   !.files = rest,
                                   !.current_file =
                                       IF rest /= <<>> THEN rest[1].filename ELSE None],
                                 [fsys EXCEPT ![a.current_file] = NoFile]),
                               [fsys EXCEPT ![a.current_file] = NoFile], "none") :
                       rest \in {dict_pop(a.files, a.current_file)}} : TRUE
    ELSE Handled(a, fsys, "none")

\* Application.__init__ after the scan returned files: the wiring of the
\* two buttons, the collection and _setFile of the first entry
Application(files, fsys) ==
    update_ui([files |-> files,
               current_file |-> IF files /= <<>> THEN files[1].filename ELSE None,
               ui_mode |-> "normal",
               createNewButton |-> <<"_on_create_new_button">>,
               removeButton |-> <<"_on_remove_file_button">>,
               removeEnabled |-> TRUE,
               new_filename |-> <<>>],
              fsys)

\* ------------------------------------------------------------ the inputs
\* a .desktop file: a comment, the section, the Exec= line, an unrelated
\* key, the two name lines
Desktop(exec, ru, en) ==
    <<"#", NL, HDR, NL, EXEC>> \o exec
    \o <<NL, "Icon=foo", NL, NAME_RU>> \o ru \o <<NL, NAME_EN>> \o en \o <<NL>>

\* spellings of the Exec= value the pattern accepts
ExecValues ==
    {<<"c">>,
     <<LD_PRELOAD, SP, GDK_SCALE, "2", SP, GDK_DPI_SCALE, "1", DOT, "5", SP, "c">>,
     <<GDK_DPI_SCALE, "2", SP, "c">>,
     <<GDK_SCALE, "0", "2", SP, SP, "c">>,
     <<LD_PRELOAD, SP>>}

\* a file whose Exec= value is empty: the line before the name lines
EmptyExec == <<HDR, NL, "Icon=foo", NL, EXEC, NL, NAME_RU, "x", NL, NAME_EN, "y", NL>>

\* the files an entry is constructed from
InitTexts ==
    {Desktop(e, <<"x">>, <<"y">>) : e \in ExecValues}
    \cup {Desktop(<<"c">>, <<"x">>, <<>>), Desktop(<<"c">>, <<>>, <<"y">>), EmptyExec}

\* texts without the template
BadTexts == {<<HDR, NL, EXEC, "c", NL, NAME_EN, "y", NL>>}

\* texts handed to set_content and texts another process writes to the file
RawTexts == {Desktop(<<GDK_SCALE, "3", SP, "d">>, <<"x">>, <<"y">>)} \cup BadTexts

\* values a typed field is set to
EditValues ==
    [preload_libstdc |-> BOOLEAN, set_scale |-> BOOLEAN, scale |-> {3},
     set_dpi_scale |-> BOOLEAN, dpi_scale |-> {<<2, <<"5">>>>},
     command |-> {<<>>, <<"d">>}, name_ru |-> {<<"z">>}, name_en |-> {<<"z">>}]

\* a launcher of the user, a launcher installed system-wide (not writable)
\* and a file with the name of a launcher but without the template
Launcher ==
    [name |-> <<"1cestart", ".desktop">>, is_file |-> TRUE,
     content |-> Desktop(<<"c">>, <<"x">>, <<"y">>), writable |-> TRUE]

SysLauncher ==
    [name |-> <<"1cestart", ".desktop">>, is_file |-> TRUE,
     content |-> Desktop(<<LD_PRELOAD, SP, "c">>, <<"x">>, <<"y">>), writable |-> FALSE]

Untemplated ==
    [name |-> <<"1cestart", "-a", ".desktop">>, is_file |-> TRUE,
     content |-> <<HDR, NL, EXEC, "c", NL, NAME_EN, "y", NL>>, writable |-> TRUE]

\* what a scanned directory can hold: a launcher, a file with the name of
\* a launcher but without the template, a launcher under a name that has
\* 1cestart not at its start, one with another suffix, and a directory
Residents ==
    {Launcher,
     Untemplated,
     [name |-> <<"x", "1cestart", ".desktop">>, is_file |-> TRUE,
      content |-> Desktop(<<"c">>, <<"x">>, <<"y">>), writable |-> TRUE],
     [name |-> <<"1cestart", ".desktop", ".bak">>, is_file |-> TRUE,
      content |-> Desktop(<<"c">>, <<"x">>, <<"y">>), writable |-> TRUE],
     [name |-> <<"1cestart", "-d", ".desktop">>, is_file |-> FALSE,
      content |-> <<>>, writable |-> TRUE]}

\* what iterdir() can yield: the residents of a directory, in any order
Listings ==
    UNION {{l \in [1..n -> Residents] : \A i, j \in 1..n : l[i] = l[j] => i = j} :
             n \in 0..MaxResidents}

\* a directory: one that does not exist, or one with its listing
Directories ==
    {[exists |-> FALSE, listing |-> <<>>]} \cup {[exists |-> TRUE, listing |-> l] : l \in Listings}

\* the directories the application starts on
AppDirectories ==
    [sys : {[exists |-> TRUE, listing |-> l] : l \in {<<>>, <<SysLauncher>>}},
     user : {[exists |-> TRUE, listing |-> l] :
                l \in {<<>>, <<Launcher>>, <<Untemplated>>, <<Launcher, Untemplated>>}}]

\* the paths the application can touch
Paths ==
    {<<d, n>> : d \in {SysDir, UserDir},
                n \in {<<"1cestart", ".desktop">>, <<"1cestart", "-a", ".desktop">>}}

\* the file system that holds the directories ds
FsOf(ds) ==
    [p \in Paths |->
        IF \E r \in Residents \cup {SysLauncher} :
              /\ r.name = p[2]
              /\ \E i \in 1..Len(ds[IF p[1] = SysDir THEN "sys" ELSE "user"].listing) :
                    ds[IF p[1] = SysDir THEN "sys" ELSE "user"].listing[i] = r
        THEN FileOf(CHOOSE r \in Residents \cup {SysLauncher} :
              /\ r.name = p[2]
              /\ \E i \in 1..Len(ds[IF p[1] = SysDir THEN "sys" ELSE "user"].listing) :
                    ds[IF p[1] = SysDir THEN "sys" ELSE "user"].listing[i] = r)
        ELSE NoFile]

\* the texts typed into new_filename
NewNames == {<<>>, <<"-a">>, <<"-a", SP>>}

\* the two entries, the texts of their files and the edits made to them
PairNames == {"A", "B"}

PairTexts ==
    {Desktop(<<"c">>, <<"x">>, <<"y">>),
     Desktop(<<LD_PRELOAD, SP, GDK_SCALE, "2", SP, "c">>, <<"x">>, <<"y">>)}

PairRawTexts == {Desktop(<<GDK_SCALE, "3", SP, "d">>, <<"x">>, <<"y">>)}

PairEdits == [command |-> {<<"d">>}, set_scale |-> {TRUE}]

\* the states repeated update() calls start from: an entry constructed on
\* a file, after at most n assignments of a field or calls of set_content
\* that left a text matching the pattern
RECURSIVE StartStates(_, _)
StartStates(f, n) ==
    IF n = 0
    THEN {r.self : r \in {post_init(f)}}
    ELSE UNION {{o}
                \cup UNION {{[o EXCEPT ![k] = v] : v \in EditValues[k]} :
                            k \in DOMAIN EditValues}
                \cup {r.self : r \in {set_content(o, f, t) : t \in RawTexts}} :
                o \in StartStates(f, n - 1)}

\* ------------------------------------------------------------- the state
VARIABLES self, file, last, ops

\* the two scanned directories and what find_desktop_files() returned
VARIABLES dirs, found

\* the application: the file system, the Application object with the
\* widget state it uses, the slots of the emission under way, the position
\* of _on_execute_button, the child process it started, the handler that
\* ran last and the number of button presses
VARIABLES fs, app, pending, pc, child, ran, presses

\* the button pressed last, with the mode and the current entry at the press
VARIABLES pressed

entry_vars == <<self, file, last, ops>>

scan_vars == <<dirs, found>>

\* two entries: the instances, which of them are constructed, their
\* backing files, the operation that ran last and the number of operations
VARIABLES objs, built, disk, did, pairops

app_vars == <<fs, app, pending, pc, child, ran, presses, pressed>>

pair_vars == <<objs, built, disk, did, pairops>>

vars == <<entry_vars, scan_vars, app_vars, pair_vars>>

\* the typed fields of an object
Fields(o) == hash(o)

\* last: the operation that led to the state, its argument, the exception
\* it raised, the branches of update() it went through and whether it
\* opened the backing file for writing
Last(op, arg, err, fired, opened) ==
    [op |-> op, arg |-> arg, err |-> err, fired |-> fired, opened |-> opened]

\* no scan was asked for
NoScan ==
    /\ dirs = [sys |-> [exists |-> FALSE, listing |-> <<>>],
               user |-> [exists |-> FALSE, listing |-> <<>>]]
    /\ found = [done |-> FALSE, err |-> "none", files |-> <<>>]

\* no entry is worked on
NoEntry ==
    /\ self = Defaults
    /\ file = NoFile
    /\ last = Last("none", <<>>, "none", <<>>, FALSE)
    /\ ops = 0

\* no application runs
NoApp ==
    /\ fs = [p \in Paths |-> NoFile]
    /\ app = Application(<<>>, [p \in Paths |-> NoFile])
    /\ pending = <<>>
    /\ pc = "idle"
    /\ child = [state |-> "none", command |-> <<>>]
    /\ ran = [slot |-> "none", err |-> "none", arg |-> None]
    /\ presses = 0
    /\ pressed = [button |-> "none", mode |-> "normal", current_file |-> None]

\* no pair of entries is worked on
NoPair ==
    /\ objs = [k \in PairNames |-> Defaults]
    /\ built = {}
    /\ disk = [k \in PairNames |-> NoFile]
    /\ did = [on |-> "none", op |-> "none", err |-> "none"]
    /\ pairops = 0

Init ==
    /\ NoScan
    /\ NoApp
    /\ NoPair
    /\ \E t \in InitTexts :
          file = [exists |-> TRUE, content |-> t, mtime |-> 1, writable |-> TRUE]
    /\ \E r \in {post_init(file)} :
          /\ r.err = "none"
          /\ self = r.self
          /\ last = Last("init", <<>>, "none", r.fired, FALSE)
    /\ ops = 0

\* self.update()
Update ==
    /\ \E r \in {update(self, file)} :
          /\ self' = r.self
          /\ last' = Last("update", <<>>, r.err, r.fired, FALSE)
    /\ UNCHANGED <<file, ops>>
    /\ UNCHANGED <<scan_vars, app_vars, pair_vars>>

\* self.set_content(t)
SetContent ==
    /\ ops < MaxOps
    /\ \E t \in RawTexts : \E r \in {set_content(self, file, t)} :
          /\ self' = r.self
          /\ last' = Last("set_content", t, r.err, r.fired, FALSE)
    /\ ops' = ops + 1
    /\ UNCHANGED file
    /\ UNCHANGED <<scan_vars, app_vars, pair_vars>>

\* self.<field> = v: an attribute assignment, update() is not called
SetField ==
    /\ ops < MaxOps
    /\ \E k \in DOMAIN EditValues : \E v \in EditValues[k] :
          /\ self[k] /= v
          /\ self' = [self EXCEPT ![k] = v]
    /\ last' = Last("edit", <<>>, "none", <<>>, FALSE)
    /\ ops' = ops + 1
    /\ UNCHANGED file
    /\ UNCHANGED <<scan_vars, app_vars, pair_vars>>

\* getattr(self, field) for every typed field, as DesktopFilesModel.data and
\* exec_command read them: plain attribute reads, update() is not called
GetFields ==
    /\ last' = Last("getattr", Fields(self), "none", <<>>, FALSE)
    /\ UNCHANGED <<self, file, ops>>
    /\ UNCHANGED <<scan_vars, app_vars, pair_vars>>

\* self.save()
Save ==
    /\ ops < MaxOps
    /\ \E r \in {save(self, file)} :
          /\ self' = r.self
          /\ file' = r.file
          /\ last' = Last("save", <<>>, r.err, r.fired, r.opened)
    /\ ops' = ops + 1
    /\ UNCHANGED <<scan_vars, app_vars, pair_vars>>

\* another process rewrites the backing file
ExternalWrite ==
    /\ ops < MaxOps
    /\ \E t \in RawTexts :
          file' = [exists |-> TRUE, content |-> t, mtime |-> file.mtime + 1,
                   writable |-> TRUE]
    /\ last' = Last("external", <<>>, "none", <<>>, FALSE)
    /\ ops' = ops + 1
    /\ UNCHANGED self
    /\ UNCHANGED <<scan_vars, app_vars, pair_vars>>

\* another process rewrites the backing file with the text it holds (or
\* touches it): the modification time changes, the text does not
ExternalTouch ==
    /\ ops < MaxOps
    /\ file.exists
    /\ file' = [file EXCEPT !.mtime = file.mtime + 1]
    /\ last' = Last("external", <<>>, "none", <<>>, FALSE)
    /\ ops' = ops + 1
    /\ UNCHANGED self
    /\ UNCHANGED <<scan_vars, app_vars, pair_vars>>

\* another process removes the backing file
ExternalRemove ==
    /\ ops < MaxOps
    /\ file.exists
    /\ file' = [file EXCEPT !.exists = FALSE, !.content = <<>>]
    /\ last' = Last("external", <<>>, "none", <<>>, FALSE)
    /\ ops' = ops + 1
    /\ UNCHANGED self
    /\ UNCHANGED <<scan_vars, app_vars, pair_vars>>

Next ==
    \/ Update
    \/ SetContent
    \/ SetField
    \/ GetFields
    \/ Save
    \/ ExternalWrite
    \/ ExternalTouch
    \/ ExternalRemove

Spec == Init /\ [][Next]_vars

\* -------------------------------------------------- the scan at start-up
ScanInit ==
    /\ NoEntry
    /\ NoApp
    /\ NoPair
    /\ dirs \in [sys : Directories, user : Directories]
    /\ found = [done |-> FALSE, err |-> "none", files |-> <<>>]

\* files = find_desktop_files()
Scan ==
    /\ ~found.done
    /\ found' = find_desktop_files(dirs)
    /\ UNCHANGED <<dirs, entry_vars, app_vars, pair_vars>>

ScanNext == Scan

SpecScan == ScanInit /\ [][ScanNext]_vars

\* ------------------------------------------------------- the application
\* the application after Application.__init__ on directories that exist
AppInit ==
    /\ NoEntry
    /\ NoPair
    /\ dirs \in AppDirectories
    /\ found = find_desktop_files(dirs)
    /\ fs = FsOf(dirs)
    /\ app = Application(found.files, fs)
    /\ pending = <<>>
    /\ pc = "idle"
    /\ child = [state |-> "none", command |-> <<>>]
    /\ ran = [slot |-> "none", err |-> "none", arg |-> None]
    /\ presses = 0
    /\ pressed = [button |-> "none", mode |-> "normal", current_file |-> None]

\* a press of createNewButton emits pressed: the slots connected at that
\* moment are called one after the other
PressCreateNew ==
    /\ pending = <<>>
    /\ presses < MaxPresses
    /\ pending' = app.createNewButton
    /\ presses' = presses + 1
    /\ pressed' = [button |-> "createNewButton", mode |-> app.ui_mode,
                    current_file |-> app.current_file]
    /\ UNCHANGED <<fs, app, pc, child, ran, entry_vars, scan_vars, pair_vars>>

\* a press of removeButton, which can be pressed when it is enabled
PressRemove ==
    /\ pending = <<>>
    /\ presses < MaxPresses
    /\ app.removeEnabled
    /\ pending' = app.removeButton
    /\ presses' = presses + 1
    /\ pressed' = [button |-> "removeButton", mode |-> app.ui_mode,
                    current_file |-> app.current_file]
    /\ UNCHANGED <<fs, app, pc, child, ran, entry_vars, scan_vars, pair_vars>>

\* a press of execute_button, which is visible in normal mode
PressExecute ==
    /\ pending = <<>>
    /\ presses < MaxPresses
    /\ app.ui_mode = "normal"
    /\ pending' = <<"_on_execute_button">>
    /\ presses' = presses + 1
    /\ pressed' = [button |-> "execute_button", mode |-> app.ui_mode,
                    current_file |-> app.current_file]
    /\ UNCHANGED <<fs, app, pc, child, ran, entry_vars, scan_vars, pair_vars>>

\* the user types into new_filename, which is visible in new-file mode
EditNewFilename ==
    /\ pending = <<>>
    /\ app.ui_mode = "new_file"
    /\ \E t \in NewNames :
          /\ t /= app.new_filename
          /\ app' = [app EXCEPT !.new_filename = t]
    /\ UNCHANGED <<fs, pending, pc, child, ran, presses, pressed, entry_vars, scan_vars, pair_vars>>

\* _on_file_select: the list of files is enabled in normal mode
OnFileSelect ==
    /\ pending = <<>>
    /\ app.ui_mode = "normal"
    /\ \E i \in 1..Len(app.files) :
          /\ app.files[i].filename /= app.current_file
          /\ app' = update_ui([app EXCEPT !.current_file = app.files[i].filename], fs)
    /\ ran' = [slot |-> "_on_file_select", err |-> "none", arg |-> None]
    /\ UNCHANGED <<fs, pending, pc, child, presses, pressed, entry_vars, scan_vars, pair_vars>>

\* the next slot of the emission is slot and it runs to its end with h
Runs(slot, h, arg) ==
    /\ pending /= <<>>
    /\ Head(pending) = slot
    /\ app' = h.app
    /\ fs' = h.fs
    /\ ran' = [slot |-> slot, err |-> h.err, arg |-> arg]
    /\ pending' = Tail(pending)
    /\ UNCHANGED <<pc, child, presses, pressed, entry_vars, scan_vars, pair_vars>>

OnCreateNewButton ==
    \E h \in {on_create_new_button(app, fs)} : Runs("_on_create_new_button", h, None)

OnCancelNewfileButton ==
    \E h \in {on_cancel_newfile_button(app, fs)} : Runs("_on_cancel_newfile_button", h, None)

OnSaveNewfileButton ==
    \E h \in {on_save_newfile_button(app, fs)} :
        Runs("_on_save_newfile_button", h, NewFilename(app.new_filename))

OnRemoveFileButton ==
    \E h \in {on_remove_file_button(app, fs)} : Runs("_on_remove_file_button", h, None)

\* _on_execute_button enters the with statement: Popen starts the shell
\* with exec_command of the current entry; of no current entry,
\* self.current_file.exec_command raises and the handler ends
OnExecuteButtonEnter ==
    /\ pending /= <<>>
    /\ Head(pending) = "_on_execute_button"
    /\ pc = "idle"
    /\ IF app.current_file = None
       THEN /\ ran' = [slot |-> "_on_execute_button", err |-> "AttributeError", arg |-> None]
            /\ pending' = Tail(pending)
            /\ UNCHANGED <<pc, child>>
       ELSE /\ pc' = "in_with"
            /\ child' = [state |-> "running",
                         command |-> exec_command(app.files[Index(app.files, app.current_file)])]
            /\ UNCHANGED <<pending, ran>>
    /\ UNCHANGED <<fs, app, presses, pressed, entry_vars, scan_vars, pair_vars>>

\* the child process ends
ChildExit ==
    /\ child.state = "running"
    /\ child' = [child EXCEPT !.state = "exited"]
    /\ UNCHANGED <<fs, app, pending, pc, ran, presses, pressed, entry_vars, scan_vars, pair_vars>>

\* _on_execute_button leaves the with statement: Popen.__exit__ waits for
\* the child, so the handler returns once the child has ended
OnExecuteButtonExit ==
    /\ pc = "in_with"
    /\ child.state = "exited"
    /\ pc' = "idle"
    /\ pending' = Tail(pending)
    /\ ran' = [slot |-> "_on_execute_button", err |-> "none", arg |-> None]
    /\ UNCHANGED <<fs, app, child, presses, pressed, entry_vars, scan_vars, pair_vars>>

AppNext ==
    \/ PressCreateNew
    \/ PressRemove
    \/ PressExecute
    \/ EditNewFilename
    \/ OnFileSelect
    \/ OnCreateNewButton
    \/ OnCancelNewfileButton
    \/ OnSaveNewfileButton
    \/ OnRemoveFileButton
    \/ OnExecuteButtonEnter
    \/ ChildExit
    \/ OnExecuteButtonExit

SpecApp == AppInit /\ [][AppNext]_vars

\* ----------------------------------------------------------- two entries
PairInit ==
    /\ NoEntry
    /\ NoScan
    /\ NoApp
    /\ objs = [k \in PairNames |-> Defaults]
    /\ built = {}
    /\ disk \in [PairNames -> {[exists |-> TRUE, content |-> t, mtime |-> 1,
                                writable |-> TRUE] : t \in PairTexts}]
    /\ did = [on |-> "none", op |-> "none", err |-> "none"]
    /\ pairops = 0

\* the method op ran on the instance k and left it as o, raising e
Ran(k, op, o, e) ==
    /\ objs' = setattr_on_self(objs, k, o)
    /\ did' = [on |-> k, op |-> op, err |-> e]
    /\ UNCHANGED <<entry_vars, scan_vars, app_vars>>

\* k = DesktopFile(filename)
PairConstruct ==
    /\ pairops < MaxPairOps
    /\ \E k \in PairNames \ built : \E r \in {DesktopFile(k, disk[k])} :
          /\ r.err = "none"
          /\ Ran(k, "construct", r.self, r.err)
          /\ built' = built \cup {k}
    /\ pairops' = pairops + 1
    /\ UNCHANGED disk

\* k.update()
PairUpdate ==
    /\ \E k \in built : \E r \in {update(objs[k], disk[k])} :
          Ran(k, "update", r.self, r.err)
    /\ UNCHANGED <<built, disk, pairops>>

\* k.set_content(t)
PairSetContent ==
    /\ pairops < MaxPairOps
    /\ \E k \in built : \E t \in PairRawTexts : \E r \in {set_content(objs[k], disk[k], t)} :
          Ran(k, "set_content", r.self, r.err)
    /\ pairops' = pairops + 1
    /\ UNCHANGED <<built, disk>>

\* k.<field> = v
PairSetField ==
    /\ pairops < MaxPairOps
    /\ \E k \in built : \E a \in DOMAIN PairEdits : \E v \in PairEdits[a] :
          /\ objs[k][a] /= v
          /\ Ran(k, "edit", [objs[k] EXCEPT ![a] = v], "none")
    /\ pairops' = pairops + 1
    /\ UNCHANGED <<built, disk>>

\* k.save()
PairSave ==
    /\ pairops < MaxPairOps
    /\ \E k \in built : \E r \in {save(objs[k], disk[k])} :
          /\ Ran(k, "save", r.self, r.err)
          /\ disk' = [disk EXCEPT ![k] = r.file]
    /\ pairops' = pairops + 1
    /\ UNCHANGED built

PairNext ==
    \/ PairConstruct
    \/ PairUpdate
    \/ PairSetContent
    \/ PairSetField
    \/ PairSave

SpecPair == PairInit /\ [][PairNext]_vars

\* ------------------------------------------------ repeated update() calls
\* an entry whose text matches the pattern; its file is as it was loaded,
\* or touched or rewritten since, and does not change any more
ConvergeInit ==
    /\ NoScan
    /\ NoApp
    /\ NoPair
    /\ \E t \in InitTexts : \E f \in {[exists |-> TRUE, content |-> t, mtime |-> 1,
                                       writable |-> TRUE]} :
          /\ self \in {o \in StartStates(f, MaxStartEdits) : Matches(o.content)}
          /\ file \in {f, [f EXCEPT !.mtime = 2]}
                      \cup {[f EXCEPT !.mtime = 2, !.content = u] : u \in RawTexts}
    /\ last = Last("init", <<>>, "none", <<>>, FALSE)
    /\ ops = 0

ConvergeNext == Update

\* a state that update() leaves as it is: <<Update>>_self is enabled in
\* the other states and in no state that is Stable
Stable == update(self, file).self = self

\* update() is called again and again: weak fairness of Update as long as
\* it changes the entry, WF_self(Update), with ENABLED <<Update>>_self
\* written as ~Stable
SpecConverge ==
    /\ ConvergeInit
    /\ [][ConvergeNext]_vars
    /\ ([]<>Stable \/ []<><<Update>>_self)

\* ------------------------------------------------------------- the claims
\* the typed fields a parse of the text s yields
ParsedFields(s) == Fields(parse_content([Defaults EXCEPT !.content = s]).self)

\* C1: a save of an entry whose raw text matches the template, whose file
\* is as last read and whose full-state fingerprint differs from
\* last_save_obj_hash completes without error, leaves the raw text, still
\* matching the template, in the backing file and sets last_save_obj_hash
\* to the current fingerprint.
C1_SaveWritesRawText ==
    [][(/\ last'.op = "save"
        /\ Matches(self.content)
        /\ calc_file_hash(file) = self.last_file_hash
        /\ self.last_save_obj_hash /= hash(self))
          => (/\ last'.err = "none"
              /\ Matches(self'.content)
              /\ file'.content = self'.content
              /\ self'.last_save_obj_hash = hash(self'))]_vars

\* C2: after a typed field was changed and update() re-rendered the text,
\* the Exec value and the two name values of the text are the ones rendered
\* from the current typed fields.
C2_FieldsAndTextAgree ==
    (/\ last.op = "update"
     /\ last.fired = <<"render">>
     /\ ParsedFields(self.last_parse_content_hash) /= Fields(self))
        => LET match == pattern_search(self.content)
           IN /\ match.ok
              /\ Slice(self.content, match.exec_span[1], match.exec_span[2])
                    = exec_command(self)
              /\ match.name_ru = self.name_ru
              /\ match.name_en = self.name_en

\* C3: round trip: the first update() after an entry was loaded, which
\* regenerates the text from the fields just parsed, leaves the text as it was.
C3_RoundTrip ==
    [][(last.op = "init" /\ last'.op = "update") => self'.content = self.content]_vars

\* C4: set_content with a text that does not match the pattern
\* signals an error and leaves every typed field unchanged.
C4_RejectedRawEditAlways ==
    [][(last'.op = "set_content" /\ ~Matches(last'.arg))
          => (last'.err /= "none" /\ Fields(self') = Fields(self))]_vars

\* C5: the raw text of an entry matches the pattern in every reachable state.
C5_RawTextMatches == Matches(self.content)

\* C6: a save that directly follows a save opens and writes nothing.
C6_SecondSaveWritesNothing ==
    [][(last.op = "save" /\ last'.op = "save") => (~last'.opened /\ file' = file)]_vars

\* C7: a save of an entry that was just loaded and not edited does not open
\* the backing file for writing.
C7_SaveOfLoadedEntryWritesNothing ==
    [][(last.op = "init" /\ last'.op = "save") => (~last'.opened /\ file' = file)]_vars

\* C8: an update() that directly follows an update() that returned normally
\* changes neither the raw text nor a typed field nor a checkpoint.
C8_SecondUpdateIsNoOp ==
    [][(last.op = "update" /\ last.err = "none" /\ last'.op = "update")
          => self' = self]_vars

\* C9: after an update() that returned normally the file, parse and render
\* checkpoints equal the fingerprints of the file, the raw text and the fields.
C9_CheckpointsConsistent ==
    (last.op = "update" /\ last.err = "none")
        => /\ self.last_file_hash = calc_file_hash(file)
           /\ self.last_parse_content_hash = self.content
           /\ self.last_set_content_hash = hash(self)

C11_FailedReloadKeepsState ==
    [][(/\ last'.op = "update"
        /\ calc_file_hash(file) /= self.last_file_hash
        /\ (~file.exists \/ ~Matches(file.content)))
          => (/\ last'.err /= "none"
              /\ Fields(self') = Fields(self)
              /\ self'.content = self.content)]_vars

\* C12: an update() that re-renders the text after typed fields were
\* changed leaves every token outside the values of the Exec=, Name[ru_RU]=
\* and Name= lines as it was: comments, other keys, key order, line breaks.
C12_PassThrough ==
    [][(/\ last'.op = "update"
        /\ last'.fired = <<"render">>
        /\ ParsedFields(self.last_parse_content_hash) /= Fields(self))
          => LET InValue(s, i) ==
                     \E k \in 1..(i - 1) :
                         /\ \E key \in {EXEC, NAME_RU, NAME_EN} : IsLine(s, k, key)
                         /\ i < EOL(s, k + 1)
                 Kept(s) == {i \in 1..Len(s) : ~InValue(s, i)}
                 Frame(s) ==
                     [j \in 1..Cardinality(Kept(s)) |->
                         s[CHOOSE i \in Kept(s) :
                               Cardinality({k \in Kept(s) : k <= i}) = j]]
             IN Frame(self'.content) = Frame(self.content)]_vars

\* C13: after a parse the preload, scale and DPI-scale flags are true
\* exactly when the Exec= value holds the assignment, and scale is 1 and
\* dpi_scale 1.0 when it does not, whatever the fields held before.
C13_ParseDefaults ==
    (/\ last.err = "none"
     /\ last.fired /= <<>>
     /\ last.fired[Len(last.fired)] = "parse")
        => LET e == Max({k \in 1..Len(self.content) : IsLine(self.content, k, EXEC)})
               has(t) == \E i \in (e + 1)..(EOL(self.content, e + 1) - 1) :
                             self.content[i] = t
           IN /\ self.preload_libstdc = has(LD_PRELOAD)
              /\ self.set_scale = has(GDK_SCALE)
              /\ self.set_dpi_scale = has(GDK_DPI_SCALE)
              /\ ~has(GDK_SCALE) => self.scale = 1
              /\ ~has(GDK_DPI_SCALE) => self.dpi_scale = <<1, <<>>>>

\* C13: a text without the DPI-scale assignment was parsed into an entry
\* whose last rendered state had dpi_scale enabled with 1.5 (fifth and
\* sixth component of the hash)
C13_Witness ==
    /\ last.op = "set_content"
    /\ last.err = "none"
    /\ last.fired = <<"parse">>
    /\ self.last_set_content_hash[5] = TRUE
    /\ self.last_set_content_hash[6] = <<1, <<"5">>>>
    /\ ~self.set_dpi_scale
    /\ self.dpi_scale = <<1, <<>>>>

\* C14: when update() re-renders a text whose Exec value is not empty, the
\* Exec value written is, in this order, the preload assignment, the scale
\* assignment and the DPI-scale assignment, each only when its flag is set
\* and each followed by one blank, then the command; a prefix whose flag is
\* not set contributes nothing, whatever value is stored.
C14_ExecRendered ==
    [][(/\ last'.op = "update"
        /\ last'.fired = <<"render">>
        /\ Matches(self.content)
        /\ pattern_search(self.content).exec_span[1]
               < pattern_search(self.content).exec_span[2])
          => LET Segment(on, body) == IF on THEN body \o <<SP>> ELSE <<>>
                 start == pattern_search(self.content).exec_span[1]
             IN Slice(self'.content, start, EOL(self'.content, start))
                    = Segment(self.preload_libstdc, <<LD_PRELOAD>>)
                      \o Segment(self.set_scale, <<GDK_SCALE>> \o str(self.scale))
                      \o Segment(self.set_dpi_scale,
                                 <<GDK_DPI_SCALE>> \o float_str(self.dpi_scale))
                      \o self.command]_vars

\* C14: a text was rendered from fields with the preload and DPI-scale
\* prefixes enabled and the scale prefix disabled while scale is not 1
C14_Witness ==
    /\ last.op = "update"
    /\ last.fired = <<"render">>
    /\ self.preload_libstdc
    /\ ~self.set_scale
    /\ self.scale /= 1
    /\ self.set_dpi_scale
    /\ \E e \in 1..Len(self.content) :
          /\ self.content[e] = EXEC
          /\ Slice(self.content, e + 1, EOL(self.content, e + 1)) = exec_command(self)

\* the residents of the directory d that the discovery filter lets through
Candidates(d) ==
    {r \in {d.listing[i] : i \in 1..Len(d.listing)} :
        /\ r.is_file
        /\ r.name[Len(r.name)] = ".desktop"
        /\ r.name[1] = "1cestart"
        /\ Matches(r.content)}

\* C15: when exactly one of the two scanned directories does not exist, the
\* scan signals no error and returns the candidates of the other directory.
C15_MissingDirectoryNonFatal ==
    (found.done /\ dirs.sys.exists /= dirs.user.exists)
        => /\ found.err = "none"
           /\ \A r \in Candidates(dirs.sys) :
                 \E j \in 1..Len(found.files) : found.files[j].filename = <<SysDir, r.name>>
           /\ \A r \in Candidates(dirs.user) :
                 \E j \in 1..Len(found.files) : found.files[j].filename = <<UserDir, r.name>>

\* C16: a scan that returns has exactly one entry for every resident that is
\* a regular file, has the .desktop suffix, a name starting with 1cestart
\* and a text matching the pattern, and no other entry; a file without the
\* template is left out whatever its name; the entries of the system-wide
\* directory come before those of the user-local directory.
C16_DiscoveryFilter ==
    (found.done /\ found.err = "none")
        => /\ \A j \in 1..Len(found.files) :
                 \/ \E r \in Candidates(dirs.sys) : found.files[j].filename = <<SysDir, r.name>>
                 \/ \E r \in Candidates(dirs.user) : found.files[j].filename = <<UserDir, r.name>>
           /\ \A r \in Candidates(dirs.sys) :
                 \E j \in 1..Len(found.files) : found.files[j].filename = <<SysDir, r.name>>
           /\ \A r \in Candidates(dirs.user) :
                 \E j \in 1..Len(found.files) : found.files[j].filename = <<UserDir, r.name>>
           /\ Len(found.files) = Cardinality(Candidates(dirs.sys)) + Cardinality(Candidates(dirs.user))
           /\ \A j, k \in 1..Len(found.files) :
                 (found.files[j].filename[1] = UserDir /\ found.files[k].filename[1] = SysDir) => k < j

\* a scan returned entries of both directories and left out a file that has
\* the name of a launcher but not the template
C16_Witness ==
    /\ found.done /\ found.err = "none"
    /\ \E j, k \in 1..Len(found.files) :
          found.files[j].filename[1] = SysDir /\ found.files[k].filename[1] = UserDir
    /\ \E i \in 1..Len(dirs.sys.listing) :
          /\ dirs.sys.listing[i].is_file
          /\ dirs.sys.listing[i].name = <<"1cestart", "-a", ".desktop">>
          /\ ~Matches(dirs.sys.listing[i].content)
          /\ \A j \in 1..Len(found.files) : found.files[j].filename /= <<SysDir, dirs.sys.listing[i].name>>

\* C17: the execute handler does not wait for the child it started: while
\* the handler stands in the with statement and the child is still running,
\* the handler can return.
C17_ExecuteReturnsWithoutWaiting ==
    (pc = "in_with" /\ child.state = "running") => ENABLED OnExecuteButtonExit

\* C19: when _on_save_newfile_button runs in new-file mode and the target
\* path exists, no file is written or copied, the collection and the
\* current entry stay as they were and the mode stays new-file.
C19_CloneToExistingBlocked ==
    [][(/\ pending /= <<>>
        /\ Head(pending) = "_on_save_newfile_button"
        /\ ran'.slot = "_on_save_newfile_button"
        /\ pending' = Tail(pending)
        /\ app.ui_mode = "new_file"
        /\ fs[NewFilename(app.new_filename)].exists)
          => /\ fs' = fs
             /\ app'.files = app.files
             /\ app'.current_file = app.current_file
             /\ app'.ui_mode = "new_file"]_vars

\* the save handler ran in new-file mode on a target that exists and is the
\* file of no entry, while an entry is current
C19_Witness ==
    /\ ran.slot = "_on_save_newfile_button"
    /\ ran.err = "none"
    /\ app.ui_mode = "new_file"
    /\ app.current_file /= None
    /\ ran.arg /= app.current_file
    /\ fs[ran.arg].exists
    /\ Index(app.files, ran.arg) = 0

\* C18: an operation on one of two entries (construction, update,
\* set_content, an edit of a field, save) leaves the four checkpoints, the
\* typed fields and the raw text of the other entry as they were.
C18_PerEntryScope ==
    [][\A k \in PairNames : \A j \in PairNames \ {k} :
          did'.on = k
            => /\ objs'[j].last_save_obj_hash = objs[j].last_save_obj_hash
               /\ objs'[j].last_set_content_hash = objs[j].last_set_content_hash
               /\ objs'[j].last_parse_content_hash = objs[j].last_parse_content_hash
               /\ objs'[j].last_file_hash = objs[j].last_file_hash
               /\ Fields(objs'[j]) = Fields(objs[j])
               /\ objs'[j].content = objs[j].content]_vars

\* both entries are constructed, B holds the checkpoints of its own text
\* and file, and a save of A has moved A's checkpoints and text
C18_Witness ==
    /\ built = PairNames
    /\ did.on = "A" /\ did.op = "save"
    /\ objs["B"].last_parse_content_hash = objs["B"].content
    /\ objs["B"].content = disk["B"].content
    /\ objs["B"].last_file_hash = calc_file_hash(disk["B"])
    /\ objs["A"].last_file_hash /= objs["B"].last_file_hash
    /\ objs["A"].content /= objs["B"].content

\* C20: whenever the backing file exists, holds a text that matches the
\* pattern and has a fingerprint other than last_file_hash, the next
\* update() makes the raw text the text of the file, derives every typed
\* field from that text, sets last_file_hash to the fingerprint of the
\* file and readonly from its write permission, whatever was edited before.
C20_ReloadReplacesState ==
    [][(/\ last'.op = "update"
        /\ file.exists
        /\ Matches(file.content)
        /\ calc_file_hash(file) /= self.last_file_hash)
          => /\ self'.content = file.content
             /\ Fields(self') = ParsedFields(file.content)
             /\ self'.last_file_hash = calc_file_hash(file)
             /\ self'.readonly = ~os_access_W_OK(file)]_vars

\* C21: after another process has changed the backing file (to a text that
\* matches the pattern), the very next read of the typed fields returns the
\* values parsed from the new text of the file.
C21_ReadsAreReconciled ==
    [][(/\ last.op = "external"
        /\ last'.op = "getattr"
        /\ file.exists
        /\ Matches(file.content))
          => last'.arg = ParsedFields(file.content)]_vars

\* C22: when save() returns or raises, the backing file holds either the
\* text it held before the call or the complete raw text of the entry, as
\* get_content() gives it on the file before the call; it is never left
\* empty or cut short.
C22_SaveNeverTruncates ==
    [][last'.op = "save"
          => \/ file'.content = file.content
             \/ file'.content = get_content(self, file).self.content]_vars

\* C23: an update() that finds the backing file missing raises, leaves
\* last_file_hash and readonly as they were, and so does every later
\* update() while the file is missing.
C23_FailedReloadIsRetried ==
    [][(last'.op = "update" /\ ~file.exists)
          => /\ last'.err /= "none"
             /\ self'.last_file_hash = self.last_file_hash
             /\ self'.readonly = self.readonly]_vars

\* C24: from a state whose raw text matches the pattern, with no change of
\* the file and no edit, repeated update() calls reach after finitely many
\* calls a state that every further call leaves unchanged.
C24_Convergence == <>[]Stable

\* repeated calls have reached a state that update() leaves as it is, after
\* a re-render and a re-parse: the text is not the text of the file and it
\* is the text parsed last
C24_Witness ==
    /\ last.op = "update" /\ last.fired = <<>> /\ last.err = "none"
    /\ Stable
    /\ self.content /= file.content
    /\ self.last_parse_content_hash = self.content
    /\ self.last_set_content_hash = hash(self)

\* C25: while the slots of a press run, a press of removeButton made in
\* new-file mode (the button reads cancel) does not delete the file of the
\* entry that was current at the press, and a press of createNewButton made
\* in normal mode writes and copies no file, adds no entry and ends in
\* new-file mode.
C25_HandlersFollowMode ==
    [][(pending /= <<>> /\ pending' = Tail(pending))
          => /\ (/\ pressed.button = "removeButton"
                 /\ pressed.mode = "new_file"
                 /\ pressed.current_file /= None)
                   => (fs[pressed.current_file].exists => fs'[pressed.current_file].exists)
             /\ (pressed.button = "createNewButton" /\ pressed.mode = "normal")
                   => /\ fs' = fs
                      /\ Len(app'.files) = Len(app.files)
                      /\ pending' = <<>> => app'.ui_mode = "new_file"]_vars

====
